---- MODULE Spec2Model ----
(***************************************************************************)
(* Team-wallet inference heuristic of Team-holdings-exporter               *)
(* (src/heuristics.py), as called on a transfer ledger built by            *)
(* src/providers.py.                                                       *)
(*                                                                         *)
(* Encoding of Python / pandas values:                                     *)
(*   - a str is a sequence of one-character strings, "" is << >>;          *)
(*   - None is the one-element tuple <<"None">>, which is no str because   *)
(*     its element is not a single character;                              *)
(*   - a DataFrame is [columns, index, rows]: the column labels in order,  *)
(*     the index labels in row order, and one record per row;              *)
(*   - an address is "0x" and ONE hex digit instead of forty, so the       *)
(*     all-zero address is 0x0; block_signed_at is a number ordered as     *)
(*     the ISO-8601 strings are.                                           *)
(* pandas semantics are those of pandas 1.x/2.x, where a None in an        *)
(* object column is handed to the mapped function as None.                 *)
(***************************************************************************)
EXTENDS Integers, Sequences, FiniteSets, TLC

\* Longest ledger drawn as input.
MaxRows == 2

None == <<"None">>

\* ---------------------------------------------------------------------------
\* str.lower, character by character
\* ---------------------------------------------------------------------------
LowerChar(c) ==
    CASE c = "A" -> "a"
      [] c = "B" -> "b"
      [] c = "C" -> "c"
      [] c = "D" -> "d"
      [] c = "X" -> "x"
      [] OTHER -> c

lower(s) == IF Len(s) = 0 THEN << >> ELSE [i \in 1..Len(s) |-> LowerChar(s[i])]

\* Python truthiness of an optional str: None and "" are falsy.
Truthy(v) == v # None /\ v # << >>

\* normalize_address without the lower-casing.
normalize_address_NoLower(addr) == IF Truthy(addr) THEN addr ELSE << >>

\* return (addr or "").lower()
normalize_address(addr) == lower(IF Truthy(addr) THEN addr ELSE << >>)

\* The literal of heuristics.py line 36.
ZERO_ADDRESS == <<"0", "x", "0">>

\* ---------------------------------------------------------------------------
\* DataFrames
\* ---------------------------------------------------------------------------
LedgerColumns == <<"block_signed_at", "tx_hash", "from", "to", "value_raw">>

\* pd.DataFrame(): no columns, no rows.
EmptyDataFrame == [columns |-> << >>, index |-> << >>, rows |-> << >>]

Range(s) == {s[i] : i \in DOMAIN s}

HasColumn(frame, col) == col \in Range(frame.columns)

\* frame[src].map(normalize_address): the mapped values in row order.
MapNormalize(frame, src) ==
    [i \in DOMAIN frame.rows |-> normalize_address(frame.rows[i][src])]

\* frame[col] = values: a new last column, or the column replaced.
SetColumn(frame, col, values) ==
    [columns |-> IF HasColumn(frame, col) THEN frame.columns
                 ELSE Append(frame.columns, col),
     index   |-> frame.index,
     rows    |-> [i \in DOMAIN frame.rows |->
                    [c \in (DOMAIN frame.rows[i]) \cup {col} |->
                        IF c = col THEN values[i] ELSE frame.rows[i][c]]]]

\* frame[mask]: the rows at the positions in keep, in their order.
RECURSIVE PositionsFrom(_, _, _)
PositionsFrom(i, n, keep) ==
    IF i > n THEN << >>
    ELSE IF i \in keep THEN <<i>> \o PositionsFrom(i + 1, n, keep)
    ELSE PositionsFrom(i + 1, n, keep)

TakeRows(frame, pos) ==
    [columns |-> frame.columns,
     index   |-> [k \in DOMAIN pos |-> frame.index[pos[k]]],
     rows    |-> [k \in DOMAIN pos |-> frame.rows[pos[k]]]]

\* Filter that keeps the first of several identical rows only.
Filter_DropDuplicates(frame, keep) ==
    TakeRows(frame, PositionsFrom(1, Len(frame.rows),
        {i \in keep : \A j \in keep : j < i => frame.rows[j] # frame.rows[i]}))

Filter(frame, keep) ==
    TakeRows(frame, PositionsFrom(1, Len(frame.rows), keep))

\* frame[[c1, ..., ck]]: exactly the listed columns, in the listed order.
SelectColumns(frame, cols) ==
    [columns |-> cols,
     index   |-> frame.index,
     rows    |-> [i \in DOMAIN frame.rows |->
                    [c \in Range(cols) |-> frame.rows[i][c]]]]

\* ---------------------------------------------------------------------------
\* infer_team_wallets_from_transfers, line by line
\* ---------------------------------------------------------------------------

\* df = transfers_df: the caller's object itself, not a copy.
copy_Alias(frame) == [obj |-> "caller", frame |-> frame]

\* transfers_df.copy(): a new object with the caller's content.  obj tells
\* which object the assignments of lines 20-21 write to.
copy(frame) == [obj |-> "copy", frame |-> frame]

\* df["from_n"] = df["from"].map(normalize_address)
\* df["to_n"]   = df["to"].map(normalize_address)
WithNormalized(ref) ==
    [obj   |-> ref.obj,
     frame |-> LET withFrom == SetColumn(ref.frame, "from_n",
                                         MapNormalize(ref.frame, "from"))
               IN SetColumn(withFrom, "to_n", MapNormalize(withFrom, "to"))]

\* creator_n = normalize_address(creator_addr) if creator_addr else None
CreatorN(creator) == IF Truthy(creator) THEN normalize_address(creator) ELSE None

\* token_n = normalize_address(token_contract)
TokenN(token) == normalize_address(token)

\* Series.dropna().tolist(), collected into a set: the non-null values.
DropNa(values) == {v \in values : v # None}

\* ReceivedFrom comparing the un-normalized `from` column.
ReceivedFrom_RawFrom(df, sender_n) ==
    DropNa({df.rows[i]["to_n"] : i \in {j \in DOMAIN df.rows : df.rows[j]["from"] = sender_n}})

\* df.loc[df["from_n"] == sender_n, "to_n"].dropna().tolist()
ReceivedFrom(df, sender_n) ==
    DropNa({df.rows[i]["to_n"] : i \in {j \in DOMAIN df.rows : df.rows[j]["from_n"] = sender_n}})

\* The creator rule left out.
FromCreator_Skipped(df, creator_n) == {}

\* if creator_n: team_like.update(<received from creator>)
FromCreator(df, creator_n) ==
    IF Truthy(creator_n) THEN ReceivedFrom(df, creator_n) ELSE {}

\* discard that removes nothing.
Discard_Nothing(set, elem) == set

\* set.discard
Discard(set, elem) == set \ {elem}

\* team_like after line 36
TeamLike(df, token, creator) ==
    Discard(FromCreator(df, CreatorN(creator)) \cup ReceivedFrom(df, TokenN(token)),
            ZERO_ADDRESS)

\* df["to_n"].isin(team_like): the positions of the rows the mask keeps
IsIn(df, col, members) == {i \in DOMAIN df.rows : df.rows[i][col] \in members}

\* out = df[df["to_n"].isin(team_like)].copy()
\* out = out[["block_signed_at","tx_hash","from","to","value_raw"]]
Selected(df, team) ==
    SelectColumns(Filter(df, IsIn(df, "to_n", team)), LedgerColumns)

\* DataFrame.sort_values(by) with the default kind="quicksort": ascending by
\* the key, and quicksort is not a stable sort, so any order of the rows with
\* equal keys is a possible result.  The set of the possible results.
Orderings(n) ==
    {p \in [1..n -> 1..n] : \A i, j \in 1..n : i # j => p[i] # p[j]}

IsAscending(frame, by) ==
    \A i, j \in DOMAIN frame.rows : i < j => frame.rows[i][by] <= frame.rows[j][by]

\* sort_values that leaves the rows in their order.
sort_values_Unsorted(frame, by) == {frame}

sort_values(frame, by) ==
    {g \in {TakeRows(frame, p) : p \in Orderings(Len(frame.rows))} :
        IsAscending(g, by)}

\* df["from"], df["to"] and the column list of line 40 raise KeyError when a
\* label is missing.
RaisesKeyError(frame) == \E c \in Range(LedgerColumns) : ~ HasColumn(frame, c)

\* ---------------------------------------------------------------------------
\* Inputs
\* ---------------------------------------------------------------------------
TOKEN   == <<"0", "x", "c">>
CREATOR == <<"0", "x", "D">>

FromValues == {None, <<"0", "x", "C">>, <<"0", "x", "d">>, <<"0", "x", "a">>}
ToValues   == {None, <<"0", "x", "0">>, <<"0", "X", "0">>,
               <<"0", "x", "a">>, <<"0", "x", "A">>, <<"0", "x", "b">>}
\* block_signed_at values; every record carries one.
Times      == {1, 2}

Records ==
    {[block_signed_at |-> t, tx_hash |-> "h", from |-> f, to |-> o, value_raw |-> 1] :
        t \in Times, f \in FromValues, o \in ToValues}

\* pd.DataFrame(rows): the columns of the dicts, a RangeIndex from 0.
DataFrameOf(rows) ==
    [columns |-> LedgerColumns,
     index   |-> [i \in DOMAIN rows |-> i - 1],
     rows    |-> rows]

\* The ledgers drawn as input: pd.DataFrame() (what fetch_token_transfers_covalent
\* returns when it collected no rows) and the frames of 0..MaxRows records.
IsLedger(frame) ==
    \/ frame = EmptyDataFrame
    \/ \E n \in 0..MaxRows : \E rows \in [1..n -> Records] : frame = DataFrameOf(rows)

CreatorInputs == {None, << >>, CREATOR}

\* ---------------------------------------------------------------------------
\* The call
\* ---------------------------------------------------------------------------
VARIABLES transfers_df, token_contract, creator_addr,
          inferred_team_addrs, early_transfers_df, pc,
          team_file, known_team, holders_df, creation_time, team_df, nonteam_df

\* main's variables that the engine call neither reads nor writes.
reportVars == <<team_file, known_team, holders_df, creation_time, team_df, nonteam_df>>

vars == <<transfers_df, token_contract, creator_addr,
          inferred_team_addrs, early_transfers_df, pc, reportVars>>

\* The engine called on its own: no report is being built.
NoReport ==
    /\ team_file = None
    /\ known_team = {}
    /\ holders_df = EmptyDataFrame
    /\ creation_time = None
    /\ team_df = EmptyDataFrame
    /\ nonteam_df = EmptyDataFrame

Init ==
    /\ IsLedger(transfers_df)
    /\ token_contract = TOKEN
    /\ creator_addr \in CreatorInputs
    /\ inferred_team_addrs = {}
    /\ early_transfers_df = EmptyDataFrame
    /\ pc = "call"
    /\ NoReport

\* What the caller's DataFrame holds once lines 19-21 have run.
CallerFrame(ref, before) == IF ref.obj = "caller" THEN ref.frame ELSE before

\* The call returns (lines 19-42).
Infer ==
    /\ pc = "call"
    /\ ~ RaisesKeyError(transfers_df)
    /\ LET ref  == WithNormalized(copy(transfers_df))
           df   == ref.frame
           team == TeamLike(df, token_contract, creator_addr)
       IN /\ inferred_team_addrs' = team
          /\ early_transfers_df' \in sort_values(Selected(df, team), "block_signed_at")
          /\ transfers_df' = CallerFrame(ref, transfers_df)
    /\ pc' = "returned"
    /\ UNCHANGED <<token_contract, creator_addr, reportVars>>

\* The call raises KeyError at line 20: nothing is returned.
InferRaises ==
    /\ pc = "call"
    /\ RaisesKeyError(transfers_df)
    /\ pc' = "KeyError"
    /\ transfers_df' = CallerFrame(copy(transfers_df), transfers_df)
    /\ UNCHANGED <<token_contract, creator_addr, inferred_team_addrs, early_transfers_df,
                   reportVars>>

Next == Infer \/ InferRaises

Spec == Init /\ [][Next]_vars

\* The same call on ledgers that differ in senders and recipients only, for
\* the properties that compare the result with the results on other inputs.
CaseFromValues == {<<"0", "x", "C">>, <<"0", "x", "d">>, <<"0", "x", "a">>}
CaseToValues   == {None, <<"0", "X", "0">>, <<"0", "x", "a">>, <<"0", "x", "A">>,
                   <<"0", "x", "b">>}

CaseRecords ==
    {[block_signed_at |-> 1, tx_hash |-> "h", from |-> f, to |-> o, value_raw |-> 1] :
        f \in CaseFromValues, o \in CaseToValues}

InitCase ==
    /\ \/ transfers_df = EmptyDataFrame
       \/ \E n \in 0..MaxRows : \E rows \in [1..n -> CaseRecords] :
              transfers_df = DataFrameOf(rows)
    /\ token_contract = TOKEN
    /\ creator_addr \in CreatorInputs
    /\ inferred_team_addrs = {}
    /\ early_transfers_df = EmptyDataFrame
    /\ pc = "call"
    /\ NoReport

SpecCase == InitCase /\ [][Next]_vars

\* ---------------------------------------------------------------------------
\* main: the report builder around the call (main.py lines 82-85, 111-139)
\* ---------------------------------------------------------------------------

\* None where a DataFrame is optional (fetch_token_transfers_covalent without
\* an API key).
NoDataFrame == [absent |-> TRUE]

\* DataFrame.empty: no columns or no rows.
IsEmptyFrame(frame) == Len(frame.columns) = 0 \/ Len(frame.rows) = 0

\* The holder rows of the fetchers: address, balance_raw, tx_count.
HolderColumns == <<"address", "balance_raw", "tx_count">>

HolderAddresses == {None, <<"0", "x", "a">>, <<"0", "x", "A">>, <<"0", "x", "b">>}

HolderRecords ==
    {[address |-> a, balance_raw |-> 1, tx_count |-> None] : a \in HolderAddresses}

\* Most holder rows drawn as input.
MaxHolders == 2

HoldersOf(rows) ==
    [columns |-> HolderColumns,
     index   |-> [i \in DOMAIN rows |-> i - 1],
     rows    |-> rows]

\* What fetch_total_supply returned: total_supply and token_decimals.
TokenInfo == [total_supply |-> 4, token_decimals |-> 0]

RECURSIVE Pow10(_)
Pow10(n) == IF n = 0 THEN 1 ELSE 10 * Pow10(n - 1)

\* Python's true division a / b, kept as the pair of its operands.
TrueDiv(a, b) == <<a, b>>

\* read_team_list(path): the stripped, non-comment lines of the team file;
\* no file when --team-file is not given.
TeamFiles ==
    {None, << <<"0", "x", "A">> >>, << <<"0", "x", "b">>, <<"0", "x", "a">> >>,
     << <<"0", "x", "B">> >>}

\* The early transfers the report builder is handed.
ReportRecords ==
    {[block_signed_at |-> 1, tx_hash |-> "h", from |-> f, to |-> o, value_raw |-> 1] :
        f \in {<<"0", "x", "C">>, <<"0", "x", "d">>},
        o \in {None, <<"0", "x", "A">>}}

\* frame[col].isin(members): one boolean per row
ColumnIsIn(frame, col, members) ==
    [i \in DOMAIN frame.rows |-> frame.rows[i][col] \in members]

\* any(axis=1) read as all(axis=1).
AnyOf_All(frame, cols) ==
    [i \in DOMAIN frame.rows |-> \A c \in cols : frame.rows[i][c]]

\* frame[[c1, ..., ck]].any(axis=1): one boolean per row
AnyOf(frame, cols) ==
    [i \in DOMAIN frame.rows |-> \E c \in cols : frame.rows[i][c]]

\* frame.drop_duplicates(subset=[col]): the first row of each value of col
drop_duplicates(frame, col) ==
    Filter(frame, {i \in DOMAIN frame.rows :
                     \A j \in DOMAIN frame.rows :
                        j < i => frame.rows[j][col] # frame.rows[i][col]})

\* frame[frame[col]] and frame[~frame[col]]
WhereTrue(frame, col) == Filter(frame, {i \in DOMAIN frame.rows : frame.rows[i][col]})
WhereFalse(frame, col) == Filter(frame, {i \in DOMAIN frame.rows : ~ frame.rows[i][col]})

InitReport ==
    /\ \/ transfers_df \in {NoDataFrame, EmptyDataFrame}
       \/ \E n \in 1..MaxRows : \E rows \in [1..n -> ReportRecords] :
              transfers_df = DataFrameOf(rows)
    /\ token_contract = TOKEN
    /\ creator_addr \in {None, CREATOR}
    /\ creation_time \in {None, <<"t">>}
    /\ team_file \in TeamFiles
    /\ \E n \in 1..MaxHolders : \E rows \in [1..n -> HolderRecords] :
          holders_df = HoldersOf(rows)
    /\ known_team = {}
    /\ inferred_team_addrs = {}
    /\ early_transfers_df = EmptyDataFrame
    /\ team_df = EmptyDataFrame
    /\ nonteam_df = EmptyDataFrame
    /\ pc = "main"

\* Lines 82-85: the known team addresses, normalized.
LoadKnownTeam ==
    /\ pc = "main"
    /\ known_team' = IF Truthy(team_file)
                     THEN {normalize_address(team_file[i]) : i \in DOMAIN team_file}
                     ELSE {}
    /\ pc' = "holders"
    /\ UNCHANGED <<transfers_df, token_contract, creator_addr, inferred_team_addrs,
                   early_transfers_df, team_file, holders_df, creation_time,
                   team_df, nonteam_df>>

\* Lines 111-115: address_n, de-duplication, balance_tokens, pct_total_supply.
NormalizeHolders ==
    /\ pc = "holders"
    /\ LET h1 == SetColumn(holders_df, "address_n", MapNormalize(holders_df, "address"))
           h2 == drop_duplicates(h1, "address_n")
           h3 == SetColumn(h2, "balance_tokens",
                    [i \in DOMAIN h2.rows |->
                        TrueDiv(h2.rows[i]["balance_raw"], Pow10(TokenInfo.token_decimals))])
       IN holders_df' =
             SetColumn(h3, "pct_total_supply",
                 [i \in DOMAIN h3.rows |->
                     TrueDiv(h3.rows[i]["balance_raw"], TokenInfo.total_supply)])
    /\ pc' = "heuristics"
    /\ UNCHANGED <<transfers_df, token_contract, creator_addr, inferred_team_addrs,
                   early_transfers_df, team_file, known_team, creation_time,
                   team_df, nonteam_df>>

\* Lines 118-126, no call: no creation time was found, or no transfers came
\* back (None or an empty frame).
SkipHeuristics ==
    /\ pc = "heuristics"
    /\ \/ creation_time = None
       \/ transfers_df = NoDataFrame
       \/ transfers_df # NoDataFrame /\ IsEmptyFrame(transfers_df)
    /\ pc' = "mark"
    /\ UNCHANGED <<transfers_df, token_contract, creator_addr, inferred_team_addrs,
                   early_transfers_df, reportVars>>

\* Lines 121-129: the engine is called on the fetched transfers.
CallHeuristics ==
    /\ pc = "heuristics"
    /\ creation_time # None
    /\ transfers_df # NoDataFrame
    /\ ~ IsEmptyFrame(transfers_df)
    /\ pc' = "call"
    /\ UNCHANGED <<transfers_df, token_contract, creator_addr, inferred_team_addrs,
                   early_transfers_df, reportVars>>

\* Lines 131-139: label, the three flags, and the two groups.
MarkTeam ==
    /\ pc \in {"mark", "returned"}
    /\ LET h1 == SetColumn(holders_df, "label", [i \in DOMAIN holders_df.rows |-> << >>])
           h2 == SetColumn(h1, "is_known_team", ColumnIsIn(h1, "address_n", known_team))
           h3 == SetColumn(h2, "is_inferred_team",
                           ColumnIsIn(h2, "address_n", inferred_team_addrs))
           h4 == SetColumn(h3, "is_team", AnyOf(h3, {"is_known_team", "is_inferred_team"}))
       IN /\ holders_df' = h4
          /\ team_df' = WhereTrue(h4, "is_team")
          /\ nonteam_df' = WhereFalse(h4, "is_team")
    /\ pc' = "done"
    /\ UNCHANGED <<transfers_df, token_contract, creator_addr, inferred_team_addrs,
                   early_transfers_df, team_file, known_team, creation_time>>

NextReport ==
    \/ LoadKnownTeam
    \/ NormalizeHolders
    \/ SkipHeuristics
    \/ CallHeuristics
    \/ Infer
    \/ MarkTeam

SpecReport == InitReport /\ [][NextReport]_vars

\* ---------------------------------------------------------------------------
\* Properties
\* ---------------------------------------------------------------------------
Returned == pc = "returned"

Ledger == transfers_df.rows

\* The ledger records sent by the creator (when one is supplied) or by the
\* token contract, compared after normalization.
SentByCreator(r) ==
    Truthy(creator_addr) /\ normalize_address(r["from"]) = normalize_address(creator_addr)

SentByToken(r) ==
    normalize_address(r["from"]) = normalize_address(token_contract)

LedgerRecords == {Ledger[i] : i \in DOMAIN Ledger}

\* C1: the Team Address Set never contains the all-zero address, also when
\* the ledger has records from the creator or the token contract to the zero
\* address in any letter case.
C1_NoZeroAddress ==
    Returned => ZERO_ADDRESS \notin inferred_team_addrs

C1_Witness ==
    /\ Returned
    /\ \E r \in LedgerRecords :
          /\ SentByCreator(r) \/ SentByToken(r)
          /\ r["to"] = <<"0", "X", "0">>
    /\ \E r \in LedgerRecords : SentByCreator(r) /\ r["to"] = ZERO_ADDRESS
    /\ inferred_team_addrs = {}

\* C2: with a creator address supplied, the Team Address Set is exactly the
\* normalized `to` of the records whose normalized `from` is the normalized
\* creator or token contract address, minus the all-zero address; a wallet
\* that only received from another sender is not in it.
C2_CreatorOrTokenRecipients ==
    (Returned /\ Truthy(creator_addr)) =>
        inferred_team_addrs =
            {normalize_address(r["to"]) :
                r \in {q \in LedgerRecords : SentByCreator(q) \/ SentByToken(q)}}
            \ {ZERO_ADDRESS}

C2_Witness ==
    /\ Returned
    /\ Truthy(creator_addr)
    /\ \E r, q \in LedgerRecords :
          /\ SentByCreator(r)
          /\ normalize_address(r["to"]) = normalize_address(q["from"])
          /\ normalize_address(r["to"]) \in inferred_team_addrs
          /\ q["to"] # None
          /\ normalize_address(q["to"]) \notin inferred_team_addrs

C4_EvidenceSortedMembers ==
    Returned =>
        LET out == early_transfers_df.rows
        IN /\ \A i \in DOMAIN out :
                 i + 1 \in DOMAIN out =>
                     out[i]["block_signed_at"] <= out[i + 1]["block_signed_at"]
           /\ \A i \in DOMAIN out :
                 normalize_address(out[i]["to"]) \in inferred_team_addrs

C4_Witness ==
    /\ Returned
    /\ Len(early_transfers_df.rows) = 2
    /\ Ledger[1]["block_signed_at"] > Ledger[2]["block_signed_at"]
    /\ early_transfers_df.index = <<1, 0>>

\* C5: a record whose `to` is null contributes no candidate, whoever sent it,
\* and no record with a null `to` appears in the Evidence Table.
C5_NullToNeverCounts ==
    Returned =>
        /\ \A a \in inferred_team_addrs :
              \E r \in LedgerRecords : r["to"] # None /\ normalize_address(r["to"]) = a
        /\ \A i \in DOMAIN early_transfers_df.rows :
              early_transfers_df.rows[i]["to"] # None

\* The letter-case spellings of a str: the strs with the same lower-cased form.
Alphabet == {"0", "x", "X", "a", "A", "b", "B", "c", "C", "d", "D"}

RECURSIVE Spellings(_)
Spellings(s) ==
    IF s = << >> THEN {<< >>}
    ELSE {<<c>> \o t : c \in {d \in Alphabet : LowerChar(d) = LowerChar(Head(s))},
                       t \in Spellings(Tail(s))}

Respellings(v) == IF v = None THEN {None} ELSE Spellings(v)

\* The ledger with the field col of the record at position i respelled.
RespelledLedger(i, col, v) ==
    [transfers_df EXCEPT !.rows[i][col] = v]

\* What a call on the given inputs returns: the Team Address Set and the
\* index labels of the ledger rows selected for the Evidence Table.
ResultOf(frame, token, creator) ==
    LET df   == WithNormalized(copy(frame)).frame
        team == TeamLike(df, token, creator)
    IN [team |-> team, selected |-> Range(Selected(df, team).index)]

SameResult(frame, token, creator) ==
    ResultOf(frame, token, creator) =
        [team |-> inferred_team_addrs, selected |-> Range(early_transfers_df.index)]

\* C6: matching is case-insensitive: respelling one address of the ledger's
\* from/to fields, the token contract address or the creator address in
\* another letter case leaves the Team Address Set and the selected ledger
\* rows unchanged, and every member of the set is lower-cased.
C6_CaseInsensitive ==
    Returned =>
        /\ \A a \in inferred_team_addrs : lower(a) = a
        /\ \A i \in DOMAIN Ledger : \A col \in {"from", "to"} :
              \A v \in Respellings(Ledger[i][col]) :
                  SameResult(RespelledLedger(i, col, v), token_contract, creator_addr)
        /\ \A t \in Respellings(token_contract) :
              SameResult(transfers_df, t, creator_addr)
        /\ \A c \in Respellings(creator_addr) :
              SameResult(transfers_df, token_contract, c)

C6_Witness ==
    /\ Returned
    /\ \E r \in LedgerRecords :
          /\ r["from"] # normalize_address(r["from"])
          /\ SentByToken(r)
          /\ r["to"] = <<"0", "x", "A">>
    /\ \E r \in LedgerRecords :
          /\ r["from"] # creator_addr
          /\ SentByCreator(r)
    /\ Cardinality(inferred_team_addrs) = 1

\* C7: on an empty ledger, with or without a creator address, the call
\* returns an empty Team Address Set and an empty Evidence Table and raises
\* no error.
C7_EmptyLedgerReturnsEmpty ==
    (pc # "call" /\ Len(Ledger) = 0) =>
        /\ Returned
        /\ inferred_team_addrs = {}
        /\ Len(early_transfers_df.rows) = 0

\* C9: the call leaves the caller's ledger as it was (same rows, order,
\* fields and values, no from_n/to_n added), and each Evidence Table row has
\* the `from` and `to` of its ledger record as they were written.
C9_LedgerUntouched ==
    [][/\ transfers_df' = transfers_df
       /\ \A k \in DOMAIN early_transfers_df'.rows :
             LET r == transfers_df.rows[early_transfers_df'.index[k] + 1]
             IN /\ early_transfers_df'.rows[k]["from"] = r["from"]
                /\ early_transfers_df'.rows[k]["to"] = r["to"]]_vars

C9_Witness ==
    /\ Returned
    /\ transfers_df.columns = LedgerColumns
    /\ \E k \in DOMAIN early_transfers_df.rows :
          LET r == early_transfers_df.rows[k]
          IN /\ r["from"] # normalize_address(r["from"])
             /\ r["to"] # normalize_address(r["to"])
             /\ r["to"] # None

\* C10: the Evidence Table holds every ledger record whose normalized `to`
\* is in the Team Address Set, whoever sent it, once per occurrence in the
\* ledger, each with exactly the columns block_signed_at, tx_hash, from, to,
\* value_raw in that order.
C10_EvidenceComplete ==
    Returned =>
        LET out == early_transfers_df
        IN /\ out.columns = <<"block_signed_at", "tx_hash", "from", "to", "value_raw">>
           /\ Range(out.index) =
                 {i - 1 : i \in {j \in DOMAIN Ledger :
                                   normalize_address(Ledger[j]["to"]) \in inferred_team_addrs}}
           /\ Cardinality(Range(out.index)) = Len(out.index)
           /\ Len(out.rows) = Len(out.index)
           /\ \A k \in DOMAIN out.rows :
                 /\ DOMAIN out.rows[k] = Range(out.columns)
                 /\ \A c \in Range(out.columns) :
                       out.rows[k][c] = Ledger[out.index[k] + 1][c]

C10_Witness ==
    /\ Returned
    /\ Len(Ledger) = 2
    /\ Ledger[1] = Ledger[2]
    /\ Len(early_transfers_df.rows) = 2
    /\ early_transfers_df.rows[1] = early_transfers_df.rows[2]

\* C11: two Evidence Table rows with equal block_signed_at stand in the order
\* their records had in the ledger (the sort is stable).
C11_StableTies ==
    Returned =>
        LET out == early_transfers_df
        IN \A i, j \in DOMAIN out.rows :
              (i < j /\ out.rows[i]["block_signed_at"] = out.rows[j]["block_signed_at"])
                  => out.index[i] < out.index[j]

\* The holder rows once the report builder has marked them.
Holders == holders_df.rows

HolderLabels(frame) == {frame.index[i] : i \in DOMAIN frame.index}

\* C12: in the report builder the holder rows are de-duplicated by
\* normalized address; a holder is flagged is_inferred_team exactly when its
\* normalized address is in the engine's Team Address Set (empty when no
\* creation time or no transfers were obtained), is_known_team exactly when
\* it is in the normalized known-team list, is_team exactly when either flag
\* holds; the team and non-team groups are disjoint and cover every holder.
C12_TeamFlags ==
    pc = "done" =>
        /\ \A i, j \in DOMAIN Holders :
              i # j => normalize_address(Holders[i]["address"])
                          # normalize_address(Holders[j]["address"])
        /\ (creation_time = None \/ transfers_df = NoDataFrame
               \/ Len(transfers_df.rows) = 0) => inferred_team_addrs = {}
        /\ \A i \in DOMAIN Holders :
              LET r == Holders[i]
                  a == normalize_address(r["address"])
              IN /\ r["is_inferred_team"] <=> a \in inferred_team_addrs
                 /\ r["is_known_team"] <=>
                       /\ team_file # None
                       /\ \E k \in DOMAIN team_file : normalize_address(team_file[k]) = a
                 /\ r["is_team"] <=> (r["is_known_team"] \/ r["is_inferred_team"])
                 /\ r["is_team"] <=> holders_df.index[i] \in HolderLabels(team_df)
                 /\ ~ r["is_team"] <=> holders_df.index[i] \in HolderLabels(nonteam_df)
        /\ HolderLabels(team_df) \cap HolderLabels(nonteam_df) = {}
        /\ HolderLabels(team_df) \cup HolderLabels(nonteam_df) = HolderLabels(holders_df)
        /\ Len(team_df.rows) + Len(nonteam_df.rows) = Len(Holders)

C12_Witness ==
    /\ pc = "done"
    /\ Len(Holders) = 2
    /\ Holders[1]["address"] = <<"0", "x", "A">>
    /\ Holders[1]["is_inferred_team"] /\ ~ Holders[1]["is_known_team"]
    /\ Holders[2]["is_known_team"] /\ ~ Holders[2]["is_inferred_team"]
    /\ Len(team_df.rows) = 2

====
